---- MODULE Spec2Model ----
(***************************************************************************)
(* Token ledger (TokenManager over the MockBlockchain executor) and        *)
(* marketplace settlement (TransactionManager).                            *)
(*                                                                         *)
(* Amounts are integers counted in tenths of a token, so that the fee      *)
(* rates and the minimum fee of the settlement code are whole numbers.     *)
(* Every `await` on the executor is a suspension point: the code before    *)
(* it and the code after it are separate atomic actions.                   *)
(***************************************************************************)
EXTENDS Integers, Sequences, FiniteSets, TLC

\* ---------------------------------------------------------------- bounds
NumCallers == 2
MaxCalls == 2
MaxTx == 2
NumResolvers == 1
NumCreators == 2
MaxRefunds == 1
\* transactions created where disputes and resolutions are explored
MaxDisputeTx == 1
\* adjustment intervals of time in the stabilizer
MaxIntervals == 2
\* price samples in the stabilizer
MaxIngest == 2
\* samples fed to a full history
ExtraSamples == 2

\* ------------------------------------------------------ program constants
\* fee_config['min_fee'] = 0.1 token is the unit of account
min_fee == 1
Token == 10 * min_fee
InitialGrant == 1000 * Token

None == "none"

\* asyncio.Lock not held: no frame
Unlocked == <<"unlocked", 0>>

\* Python None where the other values are dictionaries
Nil == [nil |-> TRUE]

ValidAccounts == {"A", "B", "C"}
Treasury == "marketplace_treasury"
Accounts == ValidAccounts \cup {Treasury}

Amounts == {0, 600 * Token, 1500 * Token}

\* the buyer, the seller and a stranger; disputes come from the buyer or
\* the stranger
Traders == {"A", "B"}
Buyers == {"A"}
Users == {"A", "C"}
Agents == {"agent1"}
TxAmounts == {0, 400 * Token}
ProcAmounts == TxAmounts \cup {1500 * Token}
Reasons == {"not as described"}
Outcomes == {"upheld"}
CreateSlots == 1..NumCreators
ResolveSlots == 1..NumResolvers
TxIds == 1..MaxTx

Callers == {<<"caller", k>> : k \in 1..NumCallers}
ProcFrames == {<<"proc", k>> : k \in 1..MaxTx}
ResolveFrames == {<<"resolve", k>> : k \in 1..NumResolvers}
Frames == Callers \cup ProcFrames \cup ResolveFrames

\* ------------------------------------------------------------ dictionaries
Put(d, k, v) == [x \in (DOMAIN d) \cup {k} |-> IF x = k THEN v ELSE d[x]]

Pop(d, k) == [x \in (DOMAIN d) \ {k} |-> d[x]]

\* MockBlockchain.get_balance: balances.get(address, 0)
get_balance(b, address) == IF address \in DOMAIN b THEN b[address] ELSE 0

RECURSIVE SumOver(_, _)
SumOver(d, S) ==
    IF S = {} THEN 0
    ELSE LET k == CHOOSE x \in S : TRUE IN d[k] + SumOver(d, S \ {k})

TotalBalance(b) == SumOver(b, DOMAIN b)

\* ------------------------------------------------------------- validators
validate_ethereum_address(address) == address \in ValidAccounts

validate_token_amount(amount) == amount > 0

\* ---------------------------------------------------------------- executor
\* MockBlockchain.transfer without the check of lines 29-30.
MockTransfer_NoCheck(b, from, to, amount) ==
    LET b1 == IF from \notin DOMAIN b THEN Put(b, from, InitialGrant) ELSE b
        b2 == [b1 EXCEPT ![from] = @ - amount]
        b3 == IF to \notin DOMAIN b2 THEN Put(b2, to, 0) ELSE b2
    IN  [ok |-> TRUE, balances |-> [b3 EXCEPT ![to] = @ + amount]]

\* MockBlockchain.transfer debiting (line 33) before the check of line 29.
MockTransfer_DebitFirst(b, from, to, amount) ==
    LET b1 == IF from \notin DOMAIN b THEN Put(b, from, InitialGrant) ELSE b
        b2 == [b1 EXCEPT ![from] = @ - amount]
    IN  IF b2[from] < 0
        THEN [ok |-> FALSE, balances |-> b2]
        ELSE LET b3 == IF to \notin DOMAIN b2 THEN Put(b2, to, 0) ELSE b2
             IN  [ok |-> TRUE, balances |-> [b3 EXCEPT ![to] = @ + amount]]

\* MockBlockchain.transfer without the credit of line 36.
MockTransfer_NoCredit(b, from, to, amount) ==
    LET b1 == IF from \notin DOMAIN b THEN Put(b, from, InitialGrant) ELSE b
    IN  IF b1[from] < amount
        THEN [ok |-> FALSE, balances |-> b1]
        ELSE LET b2 == [b1 EXCEPT ![from] = @ - amount]
                 b3 == IF to \notin DOMAIN b2 THEN Put(b2, to, 0) ELSE b2
             IN  [ok |-> TRUE, balances |-> b3]

\* MockBlockchain.transfer: the value-moving primitive.  ok = FALSE stands
\* for the raised ValueError, which send_transaction turns into
\* success = False.
MockTransfer(b, from, to, amount) ==
    LET b1 == IF from \notin DOMAIN b THEN Put(b, from, InitialGrant) ELSE b
    IN  IF b1[from] < amount
        THEN [ok |-> FALSE, balances |-> b1]
        ELSE LET b2 == [b1 EXCEPT ![from] = @ - amount]
                 b3 == IF to \notin DOMAIN b2 THEN Put(b2, to, 0) ELSE b2
             IN  [ok |-> TRUE, balances |-> [b3 EXCEPT ![to] = @ + amount]]

\* SmartContractManager.send_transaction: success = True when the call
\* went through, success = False when it raised.
SendResult(ok) == IF ok THEN "success" ELSE "failure"

\* ------------------------------------------------------------------ state
VARIABLES
    balances,             \* MockBlockchain.balances
    chain_transactions,   \* MockBlockchain.transactions
    balance_cache,        \* TokenManager.balance_cache
    transaction_history,  \* TokenManager.transaction_history
    transfer_lock,        \* TokenManager.transfer_lock: the holding frame
    performance_metrics,  \* TokenManager.performance_metrics
    xfer,                 \* one TokenManager.transfer activation per frame
    ncalls                \* transfer calls made by the direct callers

ledgerVars == <<balances, chain_transactions, balance_cache,
                transaction_history, transfer_lock, performance_metrics,
                xfer, ncalls>>

VARIABLES
    transactions,         \* TransactionManager.transactions, by transaction id
    user_transactions,    \* TransactionManager.user_transactions
    agent_transactions,   \* TransactionManager.agent_transactions
    active_transactions,  \* TransactionManager.active_transactions
    metrics,              \* TransactionManager.metrics
    agent_owner,          \* the ownership collaborator's registry
    creating,             \* create_transaction activations
    proc,                 \* position of each _process_transaction task
    resolving,            \* resolve_dispute activations
    nrefunds,             \* resolve_dispute calls that started a refund
    quote                 \* amount, buyer_volume, fee and total_amount of
                          \* lines 117-125 of create_transaction

txVars == <<transactions, user_transactions, agent_transactions,
            active_transactions, metrics, agent_owner, creating, proc,
            resolving, nrefunds, quote>>

VARIABLES
    price_history,        \* DynamicStabilizer.price_history
    volume_history,       \* DynamicStabilizer.volume_history
    market_state,         \* DynamicStabilizer.market_state
    control_params,       \* DynamicStabilizer.control_params
    last_adjustment_time, \* DynamicStabilizer.last_adjustment_time
    stabilizer_metrics,   \* DynamicStabilizer.metrics
    now,                  \* datetime.utcnow(), in seconds
    tick,                 \* the check_and_adjust activation awaiting its
                          \* mint or burn
    returned              \* what the last check_and_adjust returned

stabVars == <<price_history, volume_history, market_state, control_params,
              last_adjustment_time, stabilizer_metrics, now, tick, returned>>

VARIABLES
    balance_read,         \* a get_balance activation called on its own
    overlap               \* a check_and_adjust activation that overlaps tick

moreVars == <<balance_read, overlap>>

vars == <<ledgerVars, txVars, stabVars, moreVars>>

IdleFrame ==
    [pc |-> "idle", from |-> None, to |-> None, amount |-> 0,
     rec |-> Nil, result |-> None, ret |-> None]

\* A finished activation: only the returned value is left.
Returned(code) == [IdleFrame EXCEPT !.pc = "ret", !.ret = code]

InitLedger ==
    /\ balances = [a \in {"A", "B"} |-> InitialGrant]
    /\ chain_transactions = <<>>
    /\ balance_cache = [a \in {} |-> 0]
    /\ transaction_history = <<>>
    /\ transfer_lock = Unlocked
    /\ performance_metrics =
           [total_transactions |-> 0, successful_transactions |-> 0,
            failed_transactions |-> 0, total_volume |-> 0]
    /\ xfer = [f \in Frames |-> IdleFrame]
    /\ ncalls = 0

\* ------------------------------------------------------ TokenManager.transfer
\* Lines 163-181: input validation, then the balance read is dispatched.
TransferEnter(from, to, amount) ==
    IF ~(validate_ethereum_address(from) /\ validate_ethereum_address(to))
    THEN Returned("TOKEN_004")
    ELSE IF ~validate_token_amount(amount)
    THEN Returned("TOKEN_007")
    ELSE [IdleFrame EXCEPT !.pc = "balance", !.from = from, !.to = to,
                           !.amount = amount]

\* A direct caller invokes transfer.
CallTransfer(f, from, to, amount) ==
    /\ f \in Callers
    /\ xfer[f].pc = "idle"
    /\ ncalls < MaxCalls
    /\ ncalls' = ncalls + 1
    /\ xfer' = [xfer EXCEPT ![f] = TransferEnter(from, to, amount)]
    /\ UNCHANGED <<balances, chain_transactions, balance_cache,
                   transaction_history, transfer_lock, performance_metrics>>
    /\ UNCHANGED txVars
    /\ UNCHANGED stabVars
    /\ UNCHANGED moreVars

\* The pre-check of line 182 left out.
InsufficientBalance_Off(sender_balance, amount) == FALSE

\* Line 182: the balance pre-check.
InsufficientBalance(sender_balance, amount) == sender_balance < amount

\* Lines 181-204: the balance read is answered.  A failed read makes
\* get_balance return an error dict, the comparison with it raises and
\* handle_exceptions returns SYSTEM_ERROR.
TransferBalance(f, readOk) ==
    /\ xfer[f].pc = "balance"
    /\ LET fr == xfer[f]
           sender_balance == get_balance(balances, fr.from)
       IN  IF ~readOk
           THEN /\ xfer' = [xfer EXCEPT ![f] = Returned("SYSTEM_ERROR")]
                /\ UNCHANGED balance_cache
           ELSE /\ balance_cache' = Put(balance_cache, fr.from, sender_balance)
                /\ IF InsufficientBalance(sender_balance, fr.amount)
                   THEN xfer' = [xfer EXCEPT ![f] = Returned("TOKEN_001")]
                   ELSE xfer' = [xfer EXCEPT
                            ![f].pc = "lock",
                            ![f].rec = [from_address |-> fr.from,
                                        to_address |-> fr.to,
                                        amount |-> fr.amount,
                                        status |-> "pending"]]
    /\ UNCHANGED <<balances, chain_transactions, transaction_history,
                   transfer_lock, performance_metrics, ncalls>>
    /\ UNCHANGED txVars
    /\ UNCHANGED stabVars
    /\ UNCHANGED moreVars

\* Line 207: async with self.transfer_lock, then the move is dispatched.
TransferAcquire(f) ==
    /\ xfer[f].pc = "lock"
    /\ transfer_lock = Unlocked
    /\ transfer_lock' = f
    /\ xfer' = [xfer EXCEPT ![f].pc = "move"]
    /\ UNCHANGED <<balances, chain_transactions, balance_cache,
                   transaction_history, performance_metrics, ncalls>>
    /\ UNCHANGED txVars
    /\ UNCHANGED stabVars
    /\ UNCHANGED moreVars

\* Lines 213-217: the executor answers send_transaction("transfer", ...):
\* either the call does not get through, or MockBlockchain.transfer runs.
TransferExec(f, reached) ==
    /\ xfer[f].pc = "move"
    /\ LET fr == xfer[f]
           r == MockTransfer(balances, fr.from, fr.to, fr.amount)
       IN  IF ~reached
           THEN /\ xfer' = [xfer EXCEPT ![f].pc = "settle",
                                        ![f].result = "failure"]
                /\ UNCHANGED <<balances, chain_transactions>>
           ELSE /\ balances' = r.balances
                /\ chain_transactions' =
                       IF r.ok
                       THEN Append(chain_transactions,
                                   [from |-> fr.from, to |-> fr.to,
                                    amount |-> fr.amount])
                       ELSE chain_transactions
                /\ xfer' = [xfer EXCEPT ![f].pc = "settle",
                                        ![f].result = SendResult(r.ok)]
    /\ UNCHANGED <<balance_cache, transaction_history, transfer_lock,
                   performance_metrics, ncalls>>
    /\ UNCHANGED txVars
    /\ UNCHANGED stabVars
    /\ UNCHANGED moreVars

\* TokenManager._update_metrics, called for a completed record only.
UpdateMetrics(m, rec) ==
    IF rec.status = "completed"
    THEN [m EXCEPT !.total_transactions = @ + 1,
                   !.successful_transactions = @ + 1,
                   !.total_volume = @ + rec.amount]
    ELSE [m EXCEPT !.total_transactions = @ + 1,
                   !.failed_transactions = @ + 1]

\* Lines 219-262: the record is updated from the executor's result.
SettledStatus(result) == IF result = "success" THEN "completed" ELSE "failed"

TransferSettle(f) ==
    /\ xfer[f].pc = "settle"
    /\ LET fr == xfer[f]
           rec == [fr.rec EXCEPT !.status = SettledStatus(fr.result)]
       IN  IF fr.result = "success"
           THEN /\ performance_metrics' = UpdateMetrics(performance_metrics, rec)
                /\ balance_cache' = Pop(Pop(balance_cache, fr.from), fr.to)
                /\ xfer' = [xfer EXCEPT ![f].pc = "finally", ![f].rec = rec,
                                        ![f].ret = "ok"]
           ELSE /\ xfer' = [xfer EXCEPT ![f].pc = "finally", ![f].rec = rec,
                                        ![f].ret = "TOKEN_008"]
                /\ UNCHANGED <<performance_metrics, balance_cache>>
    /\ UNCHANGED <<balances, chain_transactions, transaction_history,
                   transfer_lock, ncalls>>
    /\ UNCHANGED txVars
    /\ UNCHANGED stabVars
    /\ UNCHANGED moreVars

\* The append of line 265 placed in the try block: reached on success only.
TransferFinally_AppendInTry(f) ==
    /\ xfer[f].pc = "finally"
    /\ transaction_history' =
           IF xfer[f].rec.status = "completed"
           THEN Append(transaction_history, xfer[f].rec)
           ELSE transaction_history
    /\ transfer_lock' = Unlocked
    /\ xfer' = [xfer EXCEPT ![f] = Returned(xfer[f].ret)]
    /\ UNCHANGED <<balances, chain_transactions, balance_cache,
                   performance_metrics, ncalls>>
    /\ UNCHANGED txVars
    /\ UNCHANGED stabVars
    /\ UNCHANGED moreVars

\* The except clause of lines 254-256 reached after the record was updated.
TransferFinally_FailedAfterUpdate(f) ==
    /\ xfer[f].pc = "finally"
    /\ transaction_history' =
           Append(transaction_history, [xfer[f].rec EXCEPT !.status = "failed"])
    /\ transfer_lock' = Unlocked
    /\ xfer' = [xfer EXCEPT ![f] = Returned(xfer[f].ret)]
    /\ UNCHANGED <<balances, chain_transactions, balance_cache,
                   performance_metrics, ncalls>>
    /\ UNCHANGED txVars
    /\ UNCHANGED stabVars
    /\ UNCHANGED moreVars

\* The finally clause of line 265 without the release that leaving the
\* async with block of line 207 performs.
TransferFinally_KeepLock(f) ==
    /\ xfer[f].pc = "finally"
    /\ transaction_history' = Append(transaction_history, xfer[f].rec)
    /\ xfer' = [xfer EXCEPT ![f] = Returned(xfer[f].ret)]
    /\ UNCHANGED <<balances, chain_transactions, balance_cache,
                   performance_metrics, ncalls, transfer_lock>>
    /\ UNCHANGED txVars
    /\ UNCHANGED stabVars
    /\ UNCHANGED moreVars

\* Lines 264-265 and the exit of the async with block.
TransferFinally(f) ==
    /\ xfer[f].pc = "finally"
    /\ transaction_history' = Append(transaction_history, xfer[f].rec)
    /\ transfer_lock' = Unlocked
    /\ xfer' = [xfer EXCEPT ![f] = Returned(xfer[f].ret)]
    /\ UNCHANGED <<balances, chain_transactions, balance_cache,
                   performance_metrics, ncalls>>
    /\ UNCHANGED txVars
    /\ UNCHANGED stabVars
    /\ UNCHANGED moreVars

\* The direct caller receives the result.
CallerReturn(f) ==
    /\ f \in Callers
    /\ xfer[f].pc = "ret"
    /\ xfer' = [xfer EXCEPT ![f] = IdleFrame]
    /\ UNCHANGED <<balances, chain_transactions, balance_cache,
                   transaction_history, transfer_lock, performance_metrics,
                   ncalls>>
    /\ UNCHANGED txVars
    /\ UNCHANGED stabVars
    /\ UNCHANGED moreVars

\* ======================================================= TransactionManager
PENDING == "pending"
PROCESSING == "processing"
COMPLETED == "completed"
FAILED == "failed"
REFUNDED == "refunded"
DISPUTED == "disputed"

\* fee_config, rates in thousandths
base_fee_rate == 25
max_fee == 100 * Token

\* volume_discount_tiers: threshold and rate, in the order of the source
volume_discount_tiers ==
    << <<1000 * Token, 20>>, <<10000 * Token, 15>>, <<100000 * Token, 10>> >>

\* sorted(..., reverse=True): the items by falling threshold
RECURSIVE SortedReverse(_)
SortedReverse(items) ==
    IF items = {} THEN <<>>
    ELSE LET m == CHOOSE x \in items : \A y \in items : y[1] <= x[1]
         IN  <<m>> \o SortedReverse(items \ {m})

\* The tiers as they stand in the dict, not sorted.
sorted_tiers_Unsorted == volume_discount_tiers

\* Lines 77-80 of _calculate_fee
sorted_tiers ==
    SortedReverse({volume_discount_tiers[i] : i \in DOMAIN volume_discount_tiers})

\* Lines 76-83: the first threshold of the sorted tiers that the volume
\* reaches gives the rate.
RECURSIVE TierRate(_, _)
TierRate(i, user_volume) ==
    IF i > Len(sorted_tiers) THEN base_fee_rate
    ELSE IF user_volume >= sorted_tiers[i][1]
         THEN sorted_tiers[i][2]
         ELSE TierRate(i + 1, user_volume)

Max2(a, b) == IF a >= b THEN a ELSE b
Min2(a, b) == IF a <= b THEN a ELSE b

\* TransactionManager._calculate_fee in thousandths of the unit of account:
\* the rates being thousandths, amount * fee_rate is exact.
calculate_fee_exact(amount, user_volume) ==
    Max2(min_fee * 1000,
         Min2(max_fee * 1000, amount * TierRate(1, user_volume)))

\* The fee in units of account, for the amounts of the settlement model,
\* whose fees are whole numbers of units.
calculate_fee(amount, user_volume) ==
    calculate_fee_exact(amount, user_volume) \div 1000

RECURSIVE CompletedVolume(_, _)
CompletedVolume(txs, tids) ==
    IF tids = <<>> THEN 0
    ELSE (IF txs[Head(tids)].state = COMPLETED THEN txs[Head(tids)].amount ELSE 0)
         + CompletedVolume(txs, Tail(tids))

\* Lines 118-122 of create_transaction
buyer_volume(txs, index, buyer_id) ==
    IF buyer_id \in DOMAIN index
    THEN CompletedVolume(txs, index[buyer_id])
    ELSE 0

\* TokenManager.check_balance is called by create_transaction but is not
\* part of the sources: a read-only comparison of the ledger balance.
check_balance(b, user_id, required) == get_balance(b, user_id) >= required

\* The ownership collaborator, AgentManager.update_agent_ownership, is not
\* part of the sources either: it re-registers the agent or raises.
update_agent_ownership(reg, agent_id, from_owner, to_owner) ==
    [reg EXCEPT ![agent_id] = to_owner]

IndexAppend(index, key, tid) ==
    IF key \in DOMAIN index
    THEN [index EXCEPT ![key] = Append(@, tid)]
    ELSE Put(index, key, <<tid>>)

InitTx ==
    /\ transactions = <<>>
    /\ user_transactions = [u \in {} |-> <<>>]
    /\ agent_transactions = [a \in {} |-> <<>>]
    /\ active_transactions = {}
    /\ metrics = [total_transactions |-> 0, successful_transactions |-> 0,
                  failed_transactions |-> 0, total_volume |-> 0,
                  total_fees |-> 0, dispute_rate |-> <<0, 1>>]
    /\ agent_owner = [a \in Agents |-> "B"]
    /\ creating = [c \in CreateSlots |-> Nil]
    /\ proc = [t \in TxIds |-> None]
    /\ resolving = [r \in ResolveSlots |-> Nil]
    /\ nrefunds = 0

\* The validation of lines 103-115 without the buyer = seller check.
create_validation_NoSelfCheck(buyer_id, seller_id, amount) ==
    IF ~validate_token_amount(amount) THEN "TRANS_002" ELSE "ok"

\* create_transaction lines 103-115: the outcome of the validation.
create_validation(buyer_id, seller_id, amount) ==
    IF buyer_id = seller_id THEN "TRANS_001"
    ELSE IF ~validate_token_amount(amount) THEN "TRANS_002"
    ELSE "ok"

\* create_transaction lines 103-128: validation and fee, then the balance
\* pre-check is awaited.  A rejected call returns its error and changes
\* nothing.
CreateBegin(c, buyer_id, seller_id, agent_id, amount) ==
    /\ creating[c] = Nil
    /\ Len(transactions) + Cardinality({x \in CreateSlots : creating[x] # Nil})
          < MaxTx
    /\ IF create_validation(buyer_id, seller_id, amount) # "ok"
       THEN UNCHANGED creating
       ELSE LET fee == calculate_fee(amount,
                           buyer_volume(transactions, user_transactions, buyer_id))
            IN  creating' = [creating EXCEPT ![c] =
                       [buyer_id |-> buyer_id, seller_id |-> seller_id,
                        agent_id |-> agent_id, amount |-> amount,
                        fee |-> fee, total_amount |-> amount + fee]]
    /\ UNCHANGED <<transactions, user_transactions, agent_transactions,
                   active_transactions, metrics, agent_owner, proc, resolving,
                   nrefunds>>
    /\ UNCHANGED ledgerVars
    /\ UNCHANGED quote
    /\ UNCHANGED stabVars
    /\ UNCHANGED moreVars

\* An identifier generator that hands out an identifier already in use.
uuid4_Reused(txs) == IF Len(txs) = 0 THEN 1 ELSE Len(txs)

\* Line 139: uuid.uuid4() gives an identifier no stored transaction has.
uuid4(txs) == Len(txs) + 1

\* create_transaction lines 128-181: the pre-check is answered (TRANS_003
\* when it is negative); the record is stored and indexed and the
\* processing task is scheduled.
CreateFinish(c) ==
    /\ creating[c] # Nil
    /\ creating' = [creating EXCEPT ![c] = Nil]
    /\ LET cr == creating[c]
           transaction_id == uuid4(transactions)
       IN  IF ~check_balance(balances, cr.buyer_id, cr.total_amount)
           THEN UNCHANGED <<transactions, user_transactions,
                            agent_transactions, active_transactions,
                            metrics, proc>>
           ELSE /\ transactions' = Append(transactions,
                       [buyer_id |-> cr.buyer_id, seller_id |-> cr.seller_id,
                        agent_id |-> cr.agent_id, amount |-> cr.amount,
                        fee |-> cr.fee, total_amount |-> cr.total_amount,
                        state |-> PENDING, error |-> None, dispute |-> Nil])
                /\ user_transactions' =
                       IndexAppend(IndexAppend(user_transactions, cr.buyer_id,
                                               transaction_id),
                                   cr.seller_id, transaction_id)
                /\ agent_transactions' =
                       IndexAppend(agent_transactions, cr.agent_id, transaction_id)
                /\ active_transactions' = active_transactions \cup {transaction_id}
                /\ proc' = [proc EXCEPT ![transaction_id] = "scheduled"]
                /\ metrics' = [metrics EXCEPT !.total_transactions = @ + 1]
    /\ UNCHANGED <<agent_owner, resolving, nrefunds>>
    /\ UNCHANGED ledgerVars
    /\ UNCHANGED quote
    /\ UNCHANGED stabVars
    /\ UNCHANGED moreVars

LedgerRest == <<balances, chain_transactions, balance_cache,
                transaction_history, transfer_lock, performance_metrics,
                ncalls>>

TxRest == <<user_transactions, agent_transactions, creating, nrefunds,
            quote>>

\* _process_transaction calling the transfer to the seller first.
ProcStart_PrincipalFirst(tid) ==
    /\ proc[tid] = "scheduled"
    /\ LET t == transactions[tid]
       IN  /\ transactions' = [transactions EXCEPT ![tid].state = PROCESSING]
           /\ xfer' = [xfer EXCEPT ![<<"proc", tid>>] =
                           TransferEnter(t.buyer_id, t.seller_id, t.amount)]
    /\ proc' = [proc EXCEPT ![tid] = "fee"]
    /\ UNCHANGED <<active_transactions, metrics, agent_owner, resolving>>
    /\ UNCHANGED TxRest
    /\ UNCHANGED stabVars
    /\ UNCHANGED moreVars
    /\ UNCHANGED LedgerRest

\* _process_transaction lines 185-197: PROCESSING, then the fee transfer.
ProcStart(tid) ==
    /\ proc[tid] = "scheduled"
    /\ LET t == transactions[tid]
       IN  /\ transactions' = [transactions EXCEPT ![tid].state = PROCESSING]
           /\ xfer' = [xfer EXCEPT ![<<"proc", tid>>] =
                           TransferEnter(t.buyer_id, Treasury, t.fee)]
    /\ proc' = [proc EXCEPT ![tid] = "fee"]
    /\ UNCHANGED <<active_transactions, metrics, agent_owner, resolving>>
    /\ UNCHANGED TxRest
    /\ UNCHANGED stabVars
    /\ UNCHANGED moreVars
    /\ UNCHANGED LedgerRest

\* Lines 199-204: the fee transfer has returned (its result is not looked
\* at); the principal transfer is called.
ProcPrincipal(tid) ==
    /\ proc[tid] = "fee"
    /\ xfer[<<"proc", tid>>].pc = "ret"
    /\ LET t == transactions[tid]
       IN  xfer' = [xfer EXCEPT ![<<"proc", tid>>] =
                        TransferEnter(t.buyer_id, t.seller_id, t.amount)]
    /\ proc' = [proc EXCEPT ![tid] = "principal"]
    /\ UNCHANGED <<transactions, active_transactions, metrics, agent_owner,
                   resolving>>
    /\ UNCHANGED TxRest
    /\ UNCHANGED stabVars
    /\ UNCHANGED moreVars
    /\ UNCHANGED LedgerRest

\* Lines 206-211: the principal transfer has returned; the ownership
\* transfer is awaited.
ProcOwnership(tid) ==
    /\ proc[tid] = "principal"
    /\ xfer[<<"proc", tid>>].pc = "ret"
    /\ xfer' = [xfer EXCEPT ![<<"proc", tid>>] = IdleFrame]
    /\ proc' = [proc EXCEPT ![tid] = "ownership"]
    /\ UNCHANGED <<transactions, active_transactions, metrics, agent_owner,
                   resolving>>
    /\ UNCHANGED TxRest
    /\ UNCHANGED stabVars
    /\ UNCHANGED moreVars
    /\ UNCHANGED LedgerRest

\* Lines 213-238: the ownership transfer answers or raises.
ProcFinish(tid, owned) ==
    /\ proc[tid] = "ownership"
    /\ LET t == transactions[tid]
       IN  IF owned
           THEN /\ agent_owner' = update_agent_ownership(agent_owner, t.agent_id,
                                                         t.seller_id, t.buyer_id)
                /\ transactions' = [transactions EXCEPT ![tid].state = COMPLETED]
                /\ metrics' = [metrics EXCEPT
                                   !.successful_transactions = @ + 1,
                                   !.total_volume = @ + t.amount,
                                   !.total_fees = @ + t.fee]
           ELSE /\ transactions' = [transactions EXCEPT
                                        ![tid].state = FAILED,
                                        ![tid].error = "ownership"]
                /\ metrics' = [metrics EXCEPT !.failed_transactions = @ + 1]
                /\ UNCHANGED agent_owner
    /\ active_transactions' = active_transactions \ {tid}
    /\ proc' = [proc EXCEPT ![tid] = "done"]
    /\ UNCHANGED <<resolving, xfer>>
    /\ UNCHANGED TxRest
    /\ UNCHANGED stabVars
    /\ UNCHANGED moreVars
    /\ UNCHANGED LedgerRest

DisputedCount(txs) == Cardinality({i \in DOMAIN txs : txs[i].state = DISPUTED})

\* dispute_transaction without the state check of lines 329-334.
dispute_check_NoState(txs, transaction_id, user_id) ==
    IF transaction_id \notin DOMAIN txs THEN "TRANS_004"
    ELSE IF user_id \notin {txs[transaction_id].buyer_id,
                            txs[transaction_id].seller_id} THEN "TRANS_005"
    ELSE "ok"

\* dispute_transaction with DISPUTED among the disputable states.
dispute_check_AllowDisputed(txs, transaction_id, user_id) ==
    IF transaction_id \notin DOMAIN txs THEN "TRANS_004"
    ELSE IF user_id \notin {txs[transaction_id].buyer_id,
                            txs[transaction_id].seller_id} THEN "TRANS_005"
    ELSE IF txs[transaction_id].state \notin {COMPLETED, FAILED, DISPUTED}
         THEN "TRANS_006"
    ELSE "ok"

\* dispute_transaction without the participant check of lines 322-327.
dispute_check_NoAuth(txs, transaction_id, user_id) ==
    IF transaction_id \notin DOMAIN txs THEN "TRANS_004"
    ELSE IF txs[transaction_id].state \notin {COMPLETED, FAILED} THEN "TRANS_006"
    ELSE "ok"

\* dispute_transaction lines 314-334: the outcome of the checks.
dispute_check(txs, transaction_id, user_id) ==
    IF transaction_id \notin DOMAIN txs THEN "TRANS_004"
    ELSE IF user_id \notin {txs[transaction_id].buyer_id,
                            txs[transaction_id].seller_id} THEN "TRANS_005"
    ELSE IF txs[transaction_id].state \notin {COMPLETED, FAILED} THEN "TRANS_006"
    ELSE "ok"

\* dispute_transaction, lines 306-358.  A rejected call returns its error
\* and changes nothing.
dispute_transaction(transaction_id, user_id, reason) ==
    /\ IF dispute_check(transactions, transaction_id, user_id) # "ok"
       THEN UNCHANGED <<transactions, metrics>>
       ELSE LET txs == [transactions EXCEPT
                          ![transaction_id].state = DISPUTED,
                          ![transaction_id].dispute =
                              [opened_by |-> user_id, reason |-> reason,
                               resolution |-> Nil]]
                total_completed == metrics.successful_transactions
                                   + metrics.failed_transactions
            IN  /\ transactions' = txs
                /\ metrics' =
                       IF total_completed > 0
                       THEN [metrics EXCEPT !.dispute_rate =
                                 <<DisputedCount(txs), total_completed>>]
                       ELSE metrics
    /\ UNCHANGED <<user_transactions, agent_transactions, active_transactions,
                   agent_owner, creating, proc, resolving, nrefunds>>
    /\ UNCHANGED ledgerVars
    /\ UNCHANGED quote
    /\ UNCHANGED stabVars
    /\ UNCHANGED moreVars

\* Lines 416-421: the resolution is written into the dispute record.
RecordResolution(txs, transaction_id, resolution, refund) ==
    [txs EXCEPT ![transaction_id].dispute.resolution =
                    [outcome |-> resolution, refunded |-> refund]]

\* resolve_dispute lines 368-380: the outcome of the checks.
resolve_check(txs, transaction_id) ==
    IF transaction_id \notin DOMAIN txs THEN "TRANS_004"
    ELSE IF txs[transaction_id].state # DISPUTED THEN "TRANS_007"
    ELSE "ok"

\* resolve_dispute lines 360-390 and 416-424: the checks; without refund
\* the resolution is recorded and the call ends, with refund the first
\* reversal transfer is called.  A rejected call returns its error and
\* changes nothing.
resolve_dispute(r, transaction_id, resolution, refund) ==
    /\ resolving[r] = Nil
    /\ IF resolve_check(transactions, transaction_id) # "ok"
       THEN UNCHANGED <<transactions, resolving, xfer, nrefunds>>
       ELSE IF ~refund
       THEN /\ transactions' = RecordResolution(transactions,
                                   transaction_id, resolution, refund)
            /\ UNCHANGED <<resolving, xfer, nrefunds>>
       ELSE LET t == transactions[transaction_id]
            IN  /\ nrefunds' = nrefunds + 1
                /\ resolving' = [resolving EXCEPT ![r] =
                       [tid |-> transaction_id, resolution |-> resolution,
                        stage |-> "principal"]]
                /\ xfer' = [xfer EXCEPT ![<<"resolve", r>>] =
                       TransferEnter(t.seller_id, t.buyer_id, t.amount)]
                /\ UNCHANGED transactions
    /\ UNCHANGED <<user_transactions, agent_transactions, active_transactions,
                   metrics, agent_owner, creating, proc>>
    /\ UNCHANGED LedgerRest
    /\ UNCHANGED quote
    /\ UNCHANGED stabVars
    /\ UNCHANGED moreVars

\* Lines 392-397: the principal reversal has returned; the fee reversal
\* is called.
ResolveFee(r) ==
    /\ resolving[r] # Nil
    /\ resolving[r].stage = "principal"
    /\ xfer[<<"resolve", r>>].pc = "ret"
    /\ LET t == transactions[resolving[r].tid]
       IN  xfer' = [xfer EXCEPT ![<<"resolve", r>>] =
                        TransferEnter(Treasury, t.buyer_id, t.fee)]
    /\ resolving' = [resolving EXCEPT ![r].stage = "fee"]
    /\ UNCHANGED <<transactions, user_transactions, agent_transactions,
                   active_transactions, metrics, agent_owner, creating, proc,
                   nrefunds>>
    /\ UNCHANGED LedgerRest
    /\ UNCHANGED quote
    /\ UNCHANGED stabVars
    /\ UNCHANGED moreVars

\* Lines 399-404: the fee reversal has returned; the ownership reversal is
\* awaited.
ResolveOwnership(r) ==
    /\ resolving[r] # Nil
    /\ resolving[r].stage = "fee"
    /\ xfer[<<"resolve", r>>].pc = "ret"
    /\ xfer' = [xfer EXCEPT ![<<"resolve", r>>] = IdleFrame]
    /\ resolving' = [resolving EXCEPT ![r].stage = "ownership"]
    /\ UNCHANGED <<transactions, user_transactions, agent_transactions,
                   active_transactions, metrics, agent_owner, creating, proc,
                   nrefunds>>
    /\ UNCHANGED LedgerRest
    /\ UNCHANGED quote
    /\ UNCHANGED stabVars
    /\ UNCHANGED moreVars

\* Lines 406-424: the ownership reversal answers, or raises and the call
\* ends with TRANS_008.
ResolveFinish(r, owned) ==
    /\ resolving[r] # Nil
    /\ resolving[r].stage = "ownership"
    /\ LET tid == resolving[r].tid
           t == transactions[tid]
       IN  IF owned
           THEN /\ agent_owner' = update_agent_ownership(agent_owner, t.agent_id,
                                                         t.buyer_id, t.seller_id)
                /\ transactions' = RecordResolution(
                       [transactions EXCEPT ![tid].state = REFUNDED],
                       tid, resolving[r].resolution, TRUE)
           ELSE UNCHANGED <<transactions, agent_owner>>
    /\ resolving' = [resolving EXCEPT ![r] = Nil]
    /\ UNCHANGED <<user_transactions, agent_transactions, active_transactions,
                   metrics, creating, proc, nrefunds, xfer>>
    /\ UNCHANGED LedgerRest
    /\ UNCHANGED quote
    /\ UNCHANGED stabVars
    /\ UNCHANGED moreVars

LedgerStep ==
    \/ \E f \in Frames, readOk \in BOOLEAN : TransferBalance(f, readOk)
    \/ \E f \in Frames : TransferAcquire(f)
    \/ \E f \in Frames, reached \in BOOLEAN : TransferExec(f, reached)
    \/ \E f \in Frames : TransferSettle(f)
    \/ \E f \in Frames : TransferFinally(f)

\* ======================================================== DynamicStabilizer
\* decimal.Decimal values are kept as fractions in lowest terms <<n, d>>
\* with d > 0, and the arithmetic on them is exact.  (Decimal rounds a
\* quotient to 28 significant digits; the quotients taken here are far
\* from that.)
Abs(n) == IF n < 0 THEN -n ELSE n

RECURSIVE GCD(_, _)
GCD(a, b) == IF b = 0 THEN a ELSE GCD(b, a % b)

Dec(n, d) ==
    LET g == GCD(Abs(n), d) IN <<n \div g, d \div g>>

Zero == <<0, 1>>

DecNeg(x) == <<-x[1], x[2]>>

DecAbs(x) == <<Abs(x[1]), x[2]>>

DecAdd(x, y) ==
    LET g == GCD(x[2], y[2])
    IN  Dec(x[1] * (y[2] \div g) + y[1] * (x[2] \div g), (x[2] \div g) * y[2])

DecSub(x, y) == DecAdd(x, DecNeg(y))

DecMul(x, y) ==
    LET g1 == GCD(Abs(x[1]), y[2])
        g2 == GCD(Abs(y[1]), x[2])
    IN  Dec((x[1] \div g1) * (y[1] \div g2), (x[2] \div g2) * (y[2] \div g1))

\* x / y for y # 0
DecDiv(x, y) ==
    DecMul(x, IF y[1] < 0 THEN <<-y[2], -y[1]>> ELSE <<y[2], y[1]>>)

DecLess(x, y) == x[1] * y[2] < y[1] * x[2]

DecLeq(x, y) == x[1] * y[2] <= y[1] * x[2]

DecMax(x, y) == IF DecLess(x, y) THEN y ELSE x

DecMin(x, y) == IF DecLess(y, x) THEN y ELSE x

\* The defaults of __init__, lines 21-24
target_price == <<1, 1>>
price_tolerance == <<1, 50>>
adjustment_interval == 3600
max_adjustment == <<1, 20>>

\* control_params, lines 50-55
kp == <<1, 2>>
ki == <<1, 10>>
kd == <<1, 5>>
damping_factor == <<4, 5>>

\* deque(maxlen=1000), lines 33-34
maxlen == 1000

\* An append that lets the deque grow beyond maxlen.
deque_append_Unbounded(q, x) == Append(q, x)

\* deque.append on a deque with maxlen: a full deque drops its oldest
\* element.
deque_append(q, x) ==
    IF Len(q) >= maxlen THEN Append(Tail(q), x) ELSE Append(q, x)

\* check_and_adjust has not been called yet
NotCalled ==
    [called_at |-> -1, adjusted |-> FALSE, price_error |-> Zero,
     adjustment |-> Zero, supply_change |-> Zero, success |-> FALSE]

\* check_and_adjust returned None (lines 217 and 226)
ReturnedNone(current_time) == [NotCalled EXCEPT !.called_at = current_time]

InitStab ==
    /\ price_history = <<>>
    /\ volume_history = <<>>
    /\ market_state = [current_price |-> target_price, current_supply |-> Zero]
    /\ control_params = [integral_error |-> Zero, last_error |-> Zero]
    /\ last_adjustment_time = 0
    /\ stabilizer_metrics =
           [total_adjustments |-> 0, successful_adjustments |-> 0,
            failed_adjustments |-> 0, total_supply_changes |-> Zero]
    /\ now = 0
    /\ tick = Nil
    /\ returned = NotCalled

\* Lines 103-107: the volume of the new transactions
RECURSIVE TotalVolume(_)
TotalVolume(txs) ==
    IF txs = <<>> THEN Zero
    ELSE DecAdd(Head(txs).amount, TotalVolume(Tail(txs)))

\* Lines 109-112: the sum of amount * price
RECURSIVE PricedVolume(_)
PricedVolume(txs) ==
    IF txs = <<>> THEN Zero
    ELSE DecAdd(DecMul(Head(txs).amount, Head(txs).price),
                PricedVolume(Tail(txs)))

\* Lines 109-113
weighted_price(txs, current_price) ==
    IF DecLess(Zero, TotalVolume(txs))
    THEN DecDiv(PricedVolume(txs), TotalVolume(txs))
    ELSE current_price

\* update_market_state, lines 93-142, called dt seconds after the previous
\* event.  The samples are appended at lines 116-117; the dictionary of
\* lines 120-126 is never completed, because _calculate_liquidity_depth
\* (line 201) reads the undefined name timestamp as soon as volume_history
\* holds a sample, so that market_state.update is not reached and the call
\* ends with STAB_002.
update_market_state(new_transactions, dt) ==
    /\ now' = now + dt
    /\ IF new_transactions = <<>>
       THEN UNCHANGED <<price_history, volume_history>>
       ELSE /\ price_history' =
                   deque_append(price_history,
                                <<now', weighted_price(new_transactions,
                                                       market_state.current_price)>>)
            /\ volume_history' =
                   deque_append(volume_history,
                                <<now', TotalVolume(new_transactions)>>)
    /\ UNCHANGED <<market_state, control_params, last_adjustment_time,
                   stabilizer_metrics, tick, returned>>
    /\ UNCHANGED <<ledgerVars, txVars, moreVars>>

\* _get_current_price, lines 167-173
get_current_price(history) ==
    IF history # <<>> THEN history[Len(history)][2] ELSE target_price

\* initialize, lines 67-90: the executor answers the totalSupply call, dt
\* seconds after the previous event, with a failure (STAB_001, nothing
\* changed) or with the supply.
initialize(answer, dt) ==
    /\ now' = now + dt
    /\ IF ~answer.success
       THEN UNCHANGED <<market_state, price_history>>
       ELSE LET current_price == get_current_price(price_history)
            IN  /\ market_state' = [current_price |-> current_price,
                                    current_supply |-> answer.data]
                /\ price_history' =
                       deque_append(price_history, <<now', current_price>>)
    /\ UNCHANGED <<volume_history, control_params, last_adjustment_time,
                   stabilizer_metrics, tick, returned>>
    /\ UNCHANGED <<ledgerVars, txVars, moreVars>>

\* A test that lets every tick through.
interval_not_elapsed_Never(current_time, last_time) == FALSE

\* Line 216
interval_not_elapsed(current_time, last_time) ==
    current_time - last_time < adjustment_interval

\* Line 222
relative_error(current_price) ==
    DecDiv(DecSub(current_price, target_price), target_price)

\* The test of line 225 with < in the place of <=.
within_tolerance_Strict(price_error) ==
    DecLess(DecAbs(price_error), price_tolerance)

\* Line 225
within_tolerance(price_error) == DecLeq(DecAbs(price_error), price_tolerance)

\* Line 230
accumulate(integral_error, price_error) ==
    DecAdd(integral_error, DecMul(price_error, <<adjustment_interval, 1>>))

\* Lines 229-237, with the integral error already accumulated
pid_adjustment(price_error, integral_error, last_error) ==
    LET p_term == DecMul(kp, price_error)
        i_term == DecMul(ki, integral_error)
        d_term == DecDiv(DecMul(kd, DecSub(price_error, last_error)),
                         <<adjustment_interval, 1>>)
    IN  DecMul(DecNeg(DecAdd(DecAdd(p_term, i_term), d_term)), damping_factor)

\* Line 240 left out.
limit_adjustment_Off(adjustment) == adjustment

\* Line 240
limit_adjustment(adjustment) ==
    DecMax(DecMin(adjustment, max_adjustment), DecNeg(max_adjustment))

\* The branches of lines 247-250 exchanged.
adjustment_call_Exchanged(supply_change) ==
    IF DecLess(Zero, supply_change)
    THEN [op |-> "burn", amount |-> supply_change]
    ELSE [op |-> "mint", amount |-> DecNeg(supply_change)]

\* Lines 247-250: the call that is awaited
adjustment_call(supply_change) ==
    IF DecLess(Zero, supply_change)
    THEN [op |-> "mint", amount |-> supply_change]
    ELSE [op |-> "burn", amount |-> DecNeg(supply_change)]

\* check_and_adjust, lines 210-250, called dt seconds after the previous
\* event: up to the awaited _mint_tokens or _burn_tokens.
TickBegin(dt) ==
    /\ tick = Nil
    /\ now' = now + dt
    /\ LET current_time == now'
           price_error == relative_error(market_state.current_price)
       IN  IF interval_not_elapsed(current_time, last_adjustment_time)
              \/ within_tolerance(price_error)
           THEN /\ returned' = ReturnedNone(current_time)
                /\ UNCHANGED <<control_params, tick>>
           ELSE LET integral_error ==
                        accumulate(control_params.integral_error, price_error)
                    adjustment ==
                        limit_adjustment(
                            pid_adjustment(price_error, integral_error,
                                           control_params.last_error))
                    supply_change ==
                        DecMul(market_state.current_supply, adjustment)
                    call == adjustment_call(supply_change)
                IN  /\ control_params' =
                           [control_params EXCEPT
                                !.integral_error = integral_error]
                    /\ tick' = [current_time |-> current_time,
                                price_error |-> price_error,
                                adjustment |-> adjustment,
                                supply_change |-> supply_change,
                                op |-> call.op, amount |-> call.amount]
                    /\ UNCHANGED returned
    /\ UNCHANGED <<price_history, volume_history, market_state,
                   last_adjustment_time, stabilizer_metrics>>
    /\ UNCHANGED <<ledgerVars, txVars, moreVars>>

\* check_and_adjust, lines 252-281: the executor has answered the mint or
\* burn (_mint_tokens and _burn_tokens turn an exception into False).
\* average_adjustment_size, which nothing reads but get_metrics, is left
\* out.
TickEnd(success) ==
    /\ tick # Nil
    /\ stabilizer_metrics' =
           IF success
           THEN [stabilizer_metrics EXCEPT
                     !.total_adjustments = @ + 1,
                     !.successful_adjustments = @ + 1,
                     !.total_supply_changes =
                         DecAdd(@, DecAbs(tick.supply_change))]
           ELSE [stabilizer_metrics EXCEPT
                     !.total_adjustments = @ + 1,
                     !.failed_adjustments = @ + 1]
    /\ last_adjustment_time' = tick.current_time
    /\ control_params' = [control_params EXCEPT !.last_error = tick.price_error]
    /\ returned' = [called_at |-> tick.current_time, adjusted |-> TRUE,
                  price_error |-> tick.price_error,
                  adjustment |-> tick.adjustment,
                  supply_change |-> tick.supply_change,
                  success |-> success]
    /\ tick' = Nil
    /\ UNCHANGED <<price_history, volume_history, market_state, now>>
    /\ UNCHANGED <<ledgerVars, txVars, moreVars>>

NoQuote == [amount |-> 0, user_volume |-> 0, fee |-> 0, total_amount |-> 0]

InitMore ==
    /\ balance_read = Nil
    /\ overlap = Nil

Init == InitLedger /\ InitTx /\ quote = NoQuote /\ InitStab /\ InitMore

Next ==
    \/ \E f \in Callers, from \in Accounts, to \in Accounts, amount \in Amounts :
           CallTransfer(f, from, to, amount)
    \/ \E f \in Callers : CallerReturn(f)
    \/ LedgerStep

Spec == Init /\ [][Next]_vars

\* The event loop runs every transfer that is ready to run, and
\* asyncio.Lock wakes its waiters in the order of their arrival, so that a
\* transfer waiting at line 207 is not passed over for ever.
LoopFairness ==
    \A f \in Callers :
        /\ SF_vars(TransferAcquire(f))
        /\ WF_vars(TransferSettle(f))
        /\ WF_vars(TransferFinally(f))

\* The executor answers every call made to it: the balance read of line
\* 181 and the send_transaction of line 213.
ExecutorAnswers ==
    \A f \in Callers :
        /\ WF_vars(\E readOk \in BOOLEAN : TransferBalance(f, readOk))
        /\ WF_vars(\E reached \in BOOLEAN : TransferExec(f, reached))

\* Transfers between two accounts in both directions, of an amount that
\* the sender can afford once and not twice.
LiveAccounts == {"A", "B"}
LiveAmounts == {600 * Token}

\* A new call is made by the first caller that has none in flight.
FreeCaller(f) ==
    /\ xfer[f].pc = "idle"
    /\ \A g \in Callers : g[2] < f[2] => xfer[g].pc # "idle"

NextLive ==
    \/ \E f \in Callers, from \in LiveAccounts, to \in LiveAccounts,
          amount \in LiveAmounts :
           /\ FreeCaller(f)
           /\ from # to
           /\ CallTransfer(f, from, to, amount)
    \/ \E f \in Callers : CallerReturn(f)
    \/ LedgerStep

\* The ledger with a running event loop and an answering executor.
SpecLive == Init /\ [][NextLive]_vars /\ LoopFairness /\ ExecutorAnswers

\* The ledger with a running event loop and an executor that answers the
\* balance reads but need not answer a send_transaction.
SpecNoAnswer ==
    /\ Init
    /\ [][NextLive]_vars
    /\ LoopFairness
    /\ \A f \in Callers :
           WF_vars(\E readOk \in BOOLEAN : TransferBalance(f, readOk))

\* ---------------------------------------------------- TokenManager.get_balance
\* get_balance called on its own, lines 86-103: the address is validated
\* and the balanceOf call is dispatched to the executor.  (A call with an
\* invalid address raises TOKEN_004 and changes nothing.)
GetBalanceCall(address) ==
    /\ balance_read = Nil
    /\ validate_ethereum_address(address)
    /\ balance_read' = [address |-> address, pc |-> "sent", balance |-> 0]
    /\ UNCHANGED overlap
    /\ UNCHANGED <<ledgerVars, txVars, stabVars>>

\* _get_token_balance, lines 133-147: the executor answers balanceOf with
\* the balance it holds at that moment, or the call fails and get_balance
\* ends with TOKEN_005.
GetBalanceAnswer(readOk) ==
    /\ balance_read # Nil
    /\ balance_read.pc = "sent"
    /\ balance_read' =
           IF readOk
           THEN [balance_read EXCEPT
                     !.pc = "answered",
                     !.balance = get_balance(balances, balance_read.address)]
           ELSE Nil
    /\ UNCHANGED overlap
    /\ UNCHANGED <<ledgerVars, txVars, stabVars>>

\* Lines 104-107: the coroutine is resumed with the answer and stores it
\* in the cache.
GetBalanceStore ==
    /\ balance_read # Nil
    /\ balance_read.pc = "answered"
    /\ balance_cache' = Put(balance_cache, balance_read.address,
                            balance_read.balance)
    /\ balance_read' = Nil
    /\ UNCHANGED overlap
    /\ UNCHANGED <<balances, chain_transactions, transaction_history,
                   transfer_lock, performance_metrics, xfer, ncalls>>
    /\ UNCHANGED <<txVars, stabVars>>

\* Transfers between two accounts, with get_balance calls made while they
\* are in flight.
NextCache ==
    \/ NextLive
    \/ \E address \in LiveAccounts : GetBalanceCall(address)
    \/ \E readOk \in BOOLEAN : GetBalanceAnswer(readOk)
    \/ GetBalanceStore

SpecCache == Init /\ [][NextCache]_vars

\* The feeds of recent transactions: none, and transactions whose
\* weighted price is 1.05, 1.005, 1.02 and 0.95.
Feeds ==
    { <<>>,
      << [amount |-> <<100, 1>>, price |-> <<21, 20>>] >>,
      << [amount |-> <<100, 1>>, price |-> <<1, 1>>],
         [amount |-> <<100, 1>>, price |-> <<101, 100>>] >>,
      << [amount |-> <<100, 1>>, price |-> <<51, 50>>] >>,
      << [amount |-> <<100, 1>>, price |-> <<19, 20>>] >> }

\* The executor's answers to totalSupply
Supplies == {Zero, <<1000000, 1>>}
SupplyAnswers ==
    {[success |-> FALSE, data |-> Zero]}
        \cup {[success |-> TRUE, data |-> d] : d \in Supplies}

\* The time between two events: none, or half the adjustment interval
Delays == {0, adjustment_interval \div 2}

InTime(dt) == now + dt <= MaxIntervals * adjustment_interval

NextStab ==
    \/ \E new_transactions \in Feeds, dt \in Delays :
           /\ InTime(dt)
           /\ Len(price_history) < MaxIngest
           /\ update_market_state(new_transactions, dt)
    \/ \E answer \in SupplyAnswers, dt \in Delays :
           /\ InTime(dt)
           /\ Len(price_history) < MaxIngest
           /\ initialize(answer, dt)
    \/ \E dt \in Delays : InTime(dt) /\ TickBegin(dt)
    \/ \E success \in BOOLEAN : TickEnd(success)

SpecStab == Init /\ [][NextStab]_vars

\* A market that goes from above the target to below it: feeds priced 1.05
\* and 0.975, a supply of 1,000,000, and histories of up to 2 * MaxIngest
\* samples.
WindupFeeds ==
    { << [amount |-> <<100, 1>>, price |-> <<21, 20>>] >>,
      << [amount |-> <<100, 1>>, price |-> <<39, 40>>] >> }

NextWindup ==
    \/ \E new_transactions \in WindupFeeds, dt \in Delays :
           /\ InTime(dt)
           /\ Len(price_history) < 2 * MaxIngest
           /\ update_market_state(new_transactions, dt)
    \/ \E dt \in Delays :
           /\ InTime(dt)
           /\ Len(price_history) < 2 * MaxIngest
           /\ initialize([success |-> TRUE, data |-> <<1000000, 1>>], dt)
    \/ \E dt \in Delays : InTime(dt) /\ TickBegin(dt)
    \/ \E success \in BOOLEAN : TickEnd(success)

SpecWindup == Init /\ [][NextWindup]_vars

\* check_and_adjust called while another activation awaits its mint or
\* burn: lines 210-250 as in TickBegin.  last_adjustment_time is written
\* at line 267, after the await, so this activation reads the value the
\* first one has read.
OverlapBegin(dt) ==
    /\ tick # Nil
    /\ overlap = Nil
    /\ now' = now + dt
    /\ LET current_time == now'
           price_error == relative_error(market_state.current_price)
       IN  IF interval_not_elapsed(current_time, last_adjustment_time)
              \/ within_tolerance(price_error)
           THEN /\ returned' = ReturnedNone(current_time)
                /\ UNCHANGED <<control_params, overlap>>
           ELSE LET integral_error ==
                        accumulate(control_params.integral_error, price_error)
                    adjustment ==
                        limit_adjustment(
                            pid_adjustment(price_error, integral_error,
                                           control_params.last_error))
                    supply_change ==
                        DecMul(market_state.current_supply, adjustment)
                    call == adjustment_call(supply_change)
                IN  /\ control_params' =
                           [control_params EXCEPT
                                !.integral_error = integral_error]
                    /\ overlap' = [current_time |-> current_time,
                                   price_error |-> price_error,
                                   adjustment |-> adjustment,
                                   supply_change |-> supply_change,
                                   op |-> call.op, amount |-> call.amount]
                    /\ UNCHANGED returned
    /\ UNCHANGED <<price_history, volume_history, market_state,
                   last_adjustment_time, stabilizer_metrics, tick>>
    /\ UNCHANGED <<ledgerVars, txVars, balance_read>>

\* Lines 252-281 for the overlapping activation, as in TickEnd.
OverlapEnd(success) ==
    /\ overlap # Nil
    /\ stabilizer_metrics' =
           IF success
           THEN [stabilizer_metrics EXCEPT
                     !.total_adjustments = @ + 1,
                     !.successful_adjustments = @ + 1,
                     !.total_supply_changes =
                         DecAdd(@, DecAbs(overlap.supply_change))]
           ELSE [stabilizer_metrics EXCEPT
                     !.total_adjustments = @ + 1,
                     !.failed_adjustments = @ + 1]
    /\ last_adjustment_time' = overlap.current_time
    /\ control_params' =
           [control_params EXCEPT !.last_error = overlap.price_error]
    /\ returned' = [called_at |-> overlap.current_time, adjusted |-> TRUE,
                  price_error |-> overlap.price_error,
                  adjustment |-> overlap.adjustment,
                  supply_change |-> overlap.supply_change,
                  success |-> success]
    /\ overlap' = Nil
    /\ UNCHANGED <<price_history, volume_history, market_state, now, tick>>
    /\ UNCHANGED <<ledgerVars, txVars, balance_read>>

\* The stabilizer with check_and_adjust called again while a call is in
\* flight.
NextOverlap ==
    \/ NextStab
    \/ \E dt \in Delays : InTime(dt) /\ OverlapBegin(dt)
    \/ \E success \in BOOLEAN : OverlapEnd(success)

SpecOverlap == Init /\ [][NextOverlap]_vars

\* Ingestion alone, one feed a second, until the histories have received
\* ExtraSamples samples more than they hold.
RingFeeds == {<< [amount |-> <<100, 1>>, price |-> <<21, 20>>] >>}

NextRing ==
    \E new_transactions \in RingFeeds :
        /\ now < maxlen + ExtraSamples
        /\ update_market_state(new_transactions, 1)

SpecRing == Init /\ [][NextRing]_vars

\* The fee of a purchase, for amounts around the two clamps and volumes
\* around the tier thresholds.
FeeAmounts ==
    {1, 39, 40, 41, 100, 4000, 39999, 40000, 40001, 50000, 66667, 99999,
     100000, 1000000}
FeeVolumes ==
    {0, 1000 * Token - 1, 1000 * Token, 1000 * Token + 1, 10000 * Token - 1,
     10000 * Token, 100000 * Token - 1, 100000 * Token, 100000 * Token + 1,
     2 * 100000 * Token}

InitFee ==
    /\ InitLedger
    /\ InitTx
    /\ InitStab
    /\ InitMore
    /\ quote \in {[NoQuote EXCEPT !.amount = a, !.user_volume = v] :
                      a \in FeeAmounts, v \in FeeVolumes}

\* create_transaction lines 124-125, the money in thousandths of the unit.
QuoteFee ==
    /\ quote.fee = 0
    /\ LET fee == calculate_fee_exact(quote.amount, quote.user_volume)
       IN  quote' = [quote EXCEPT !.fee = fee,
                                  !.total_amount = quote.amount * 1000 + fee]
    /\ UNCHANGED <<transactions, user_transactions, agent_transactions,
                   active_transactions, metrics, agent_owner, creating, proc,
                   resolving, nrefunds>>
    /\ UNCHANGED ledgerVars
    /\ UNCHANGED stabVars
    /\ UNCHANGED moreVars

NextFee == QuoteFee

SpecFee == InitFee /\ [][NextFee]_vars

\* Concurrent calls are interchangeable: a new call takes the first free
\* slot.
FreeCreateSlot(c) ==
    /\ creating[c] = Nil
    /\ \A x \in CreateSlots : x < c => creating[x] # Nil

FreeResolveSlot(r) ==
    /\ resolving[r] = Nil
    /\ \A x \in ResolveSlots : x < r => resolving[x] # Nil

\* Creation and processing: concurrent create_transaction calls and the
\* processing tasks they schedule.
NextProc ==
    \/ \E c \in CreateSlots, buyer_id \in Buyers, seller_id \in Traders,
          agent_id \in Agents, amount \in ProcAmounts :
           /\ FreeCreateSlot(c)
           /\ CreateBegin(c, buyer_id, seller_id, agent_id, amount)
    \/ \E c \in CreateSlots : CreateFinish(c)
    \/ \E tid \in TxIds : ProcStart(tid)
    \/ \E tid \in TxIds : ProcPrincipal(tid)
    \/ \E tid \in TxIds : ProcOwnership(tid)
    \/ \E tid \in TxIds, owned \in BOOLEAN : ProcFinish(tid, owned)
    \/ LedgerStep

SpecProc == Init /\ [][NextProc]_vars

Admitted ==
    Len(transactions) + Cardinality({x \in CreateSlots : creating[x] # Nil})

\* Creation, processing and disputes opened by the buyer, the seller or a
\* stranger.
NextDispute ==
    \/ NextProc
    \/ \E tid \in TxIds, user_id \in Traders \cup Users, reason \in Reasons :
           dispute_transaction(tid, user_id, reason)

SpecDispute == Init /\ [][NextDispute]_vars

\* Creation, processing, disputes and resolutions.  A rejected dispute or
\* resolution changes nothing: it is a stuttering step, which
\* [][NextTx]_vars allows in every state, so only the admitted calls are
\* enumerated here.
NextTx ==
    \/ \E c \in CreateSlots, buyer_id \in Buyers, seller_id \in Traders,
          agent_id \in Agents, amount \in TxAmounts :
           /\ Admitted < MaxDisputeTx
           /\ FreeCreateSlot(c)
           /\ CreateBegin(c, buyer_id, seller_id, agent_id, amount)
    \/ \E c \in CreateSlots : CreateFinish(c)
    \/ \E tid \in TxIds : ProcStart(tid)
    \/ \E tid \in TxIds : ProcPrincipal(tid)
    \/ \E tid \in TxIds : ProcOwnership(tid)
    \/ \E tid \in TxIds, owned \in BOOLEAN : ProcFinish(tid, owned)
    \/ \E tid \in TxIds, user_id \in Users, reason \in Reasons :
           /\ dispute_check(transactions, tid, user_id) = "ok"
           /\ dispute_transaction(tid, user_id, reason)
    \/ \E r \in ResolveSlots, tid \in TxIds, resolution \in Outcomes,
          refund \in BOOLEAN :
           /\ FreeResolveSlot(r)
           /\ resolve_check(transactions, tid) = "ok"
           /\ refund => nrefunds < MaxRefunds
           /\ resolve_dispute(r, tid, resolution, refund)
    \/ \E r \in ResolveSlots : ResolveFee(r)
    \/ \E r \in ResolveSlots : ResolveOwnership(r)
    \/ \E r \in ResolveSlots, owned \in BOOLEAN : ResolveFinish(r, owned)
    \/ LedgerStep

SpecTx == Init /\ [][NextTx]_vars

\* The calls of NextTx, and one more resolve_dispute with refund when
\* MaxRefunds refunds have been started.
NextRetry ==
    \/ NextTx
    \/ \E r \in ResolveSlots, tid \in TxIds, resolution \in Outcomes :
           /\ FreeResolveSlot(r)
           /\ resolve_check(transactions, tid) = "ok"
           /\ nrefunds = MaxRefunds
           /\ resolve_dispute(r, tid, resolution, TRUE)

SpecRetry == Init /\ [][NextRetry]_vars

\* ==================================================================== claims
InitialSupply == TotalBalance([a \in {"A", "B"} |-> InitialGrant])

Terminal == {"completed", "failed"}

StatusOf(rec) == IF rec = Nil THEN None ELSE rec.status

\* C1: transfers, completed or failed and in any interleaving, leave the sum
\* of all balances equal to the supply the accounts started with.
C1_Conservation == TotalBalance(balances) = InitialSupply

\* A completed and a failed transfer are both in the history.
C1_Witness ==
    /\ \E i \in DOMAIN transaction_history :
           transaction_history[i].status = "completed"
    /\ \E j \in DOMAIN transaction_history :
           transaction_history[j].status = "failed"

\* C2: no account balance is ever negative.
C2_NoNegativeBalance == \A a \in DOMAIN balances : balances[a] >= 0

\* Two transfers debiting the same account passed the pre-check and the
\* executor refused the second one, which the balance no longer covers.
C2_Witness ==
    \E f \in Frames :
        /\ xfer[f].pc = "settle"
        /\ xfer[f].result = "failure"
        /\ get_balance(balances, xfer[f].from) < xfer[f].amount
        /\ Len(chain_transactions) > 0

\* The step of frame f is the executor answering with a successful move.
MoveSucceeds(f) ==
    /\ xfer[f].pc = "move"
    /\ xfer'[f].pc = "settle"
    /\ xfer'[f].result = "success"

\* The step of frame f is the executor answering with a failed move.
MoveFails(f) ==
    /\ xfer[f].pc = "move"
    /\ xfer'[f].pc = "settle"
    /\ xfer'[f].result = "failure"

\* C3: a step in which the executor's move fails changes no balance, every
\* other step of a transfer except a successful move changes none either,
\* and the record of a failed move is marked failed.
C3_Atomicity ==
    [][\A f \in Frames :
          /\ MoveFails(f) => balances' = balances
          /\ (xfer'[f] # xfer[f] /\ ~MoveSucceeds(f)) => balances' = balances
          /\ (xfer[f].pc = "settle" /\ xfer[f].result = "failure"
                /\ xfer'[f].pc = "finally")
               => xfer'[f].rec.status = "failed"
          /\ (xfer[f].pc = "finally" /\ xfer[f].ret = "TOKEN_008"
                /\ xfer'[f].pc = "ret")
               => transaction_history'[Len(transaction_history')].status = "failed"
      ]_vars

\* A transfer whose move failed has returned and its record is in the
\* history.
C3_Witness ==
    \E f \in Frames :
        /\ xfer[f] = Returned("TOKEN_008")
        /\ Len(transaction_history) > 0
        /\ transaction_history[Len(transaction_history)].status = "failed"

\* C4: when the balance read shows less than the amount, the transfer
\* returns TOKEN_001 (insufficient balance) and no balance changes.
C4_InsufficientBalance ==
    [][\A f \in Frames :
          (/\ xfer[f].pc = "balance"
           /\ get_balance(balances, xfer[f].from) < xfer[f].amount
           /\ TransferBalance(f, TRUE))
          => /\ xfer'[f] = Returned("TOKEN_001")
             /\ balances' = balances
             /\ transaction_history' = transaction_history
      ]_vars

\* A transfer was rejected for insufficient balance.
C4_Witness == \E f \in Frames : xfer[f] = Returned("TOKEN_001")

\* C5: a move the balance covers succeeds when the executor is reached; it
\* debits the sender and credits a different receiver by exactly the
\* amount and changes no other account, and the record ends completed.
C5_SuccessfulTransfer ==
    [][\A f \in Frames :
          LET fr == xfer[f] IN
          /\ (fr.pc = "move" /\ TransferExec(f, TRUE)
                /\ get_balance(balances, fr.from) >= fr.amount)
               => MoveSucceeds(f)
          /\ (MoveSucceeds(f) /\ fr.from # fr.to)
               => /\ get_balance(balances', fr.from)
                       = get_balance(balances, fr.from) - fr.amount
                  /\ get_balance(balances', fr.to)
                       = get_balance(balances, fr.to) + fr.amount
                  /\ \A a \in Accounts \ {fr.from, fr.to} :
                         get_balance(balances', a) = get_balance(balances, a)
          /\ (fr.pc = "settle" /\ fr.result = "success"
                /\ xfer'[f].pc = "finally")
               => xfer'[f].rec.status = "completed"
          /\ (fr.pc = "finally" /\ fr.ret = "ok" /\ xfer'[f].pc = "ret")
               => transaction_history'[Len(transaction_history')]
                      = [from_address |-> fr.from, to_address |-> fr.to,
                         amount |-> fr.amount, status |-> "completed"]
      ]_vars

\* A transfer between two different accounts has returned success.
C5_Witness ==
    \E f \in Frames :
        /\ xfer[f] = Returned("ok")
        /\ \E i \in DOMAIN transaction_history :
               /\ transaction_history[i].status = "completed"
               /\ transaction_history[i].from_address
                      # transaction_history[i].to_address

\* The step of frame f ends its transfer activation.
Returns(f) == xfer[f].pc # "ret" /\ xfer'[f].pc = "ret"

IsPrefix(s, t) == Len(s) <= Len(t) /\ \A i \in 1..Len(s) : s[i] = t[i]

C7_StatusWriteOnce ==
    [][/\ \A f \in Frames :
             StatusOf(xfer[f].rec) \in Terminal =>
                 IF xfer'[f].rec # Nil
                 THEN xfer'[f].rec.status = xfer[f].rec.status
                 ELSE transaction_history'[Len(transaction_history')].status
                          = xfer[f].rec.status
       /\ \A i \in DOMAIN transaction_history :
             transaction_history'[i] = transaction_history[i]
      ]_vars

\* A completed record is in the history and another record, already
\* terminal, is about to be appended.
C7_Witness ==
    /\ \E i \in DOMAIN transaction_history :
           transaction_history[i].status = "completed"
    /\ \E f \in Frames : xfer[f].pc = "finally"
                         /\ xfer[f].rec.status \in Terminal

LegalTransitions ==
    { <<PENDING, PROCESSING>>, <<PROCESSING, COMPLETED>>,
      <<PROCESSING, FAILED>>, <<COMPLETED, DISPUTED>>, <<FAILED, DISPUTED>>,
      <<DISPUTED, REFUNDED>>, <<DISPUTED, COMPLETED>> }

\* C8: every change of a transaction's state is one of the legal
\* transitions.
C8_LegalTransitions ==
    [][\A tid \in DOMAIN transactions :
          transactions'[tid].state # transactions[tid].state
          => <<transactions[tid].state, transactions'[tid].state>>
                 \in LegalTransitions
      ]_vars

\* A transaction went through processing, a dispute and a refund.
C8_Witness ==
    \E tid \in DOMAIN transactions :
        /\ transactions[tid].state = REFUNDED
        /\ transactions[tid].dispute # Nil

Participants(t) == {t.buyer_id, t.seller_id}

\* C9: a dispute by a participant on a transaction that is not completed
\* or failed is answered TRANS_006, a resolution of a transaction that is
\* not disputed is answered TRANS_007, and neither call changes the
\* transaction (state and dispute record included): no step that changes
\* a transaction or starts a transfer is such a call.
C9_IllegalTransitionRejected ==
    /\ [](\A tid \in DOMAIN transactions :
            /\ transactions[tid].state \notin {COMPLETED, FAILED}
                 => \A u \in Participants(transactions[tid]) :
                        dispute_check(transactions, tid, u) = "TRANS_006"
            /\ transactions[tid].state # DISPUTED
                 => resolve_check(transactions, tid) = "TRANS_007")
    /\ [][\A tid \in DOMAIN transactions :
            /\ (transactions[tid].state \notin {COMPLETED, FAILED}
                  /\ transactions' # transactions)
                 => \A u \in Users, reason \in Reasons :
                        ~dispute_transaction(tid, u, reason)
            /\ (transactions[tid].state # DISPUTED
                  /\ (transactions' # transactions \/ xfer' # xfer))
                 => \A r \in ResolveSlots, resolution \in Outcomes,
                       refund \in BOOLEAN :
                        ~resolve_dispute(r, tid, resolution, refund)
         ]_vars

\* A refunded transaction: neither a dispute nor a resolution is accepted
\* any more.
C9_Witness ==
    \E tid \in DOMAIN transactions :
        /\ transactions[tid].state = REFUNDED
        /\ dispute_check(transactions, tid, transactions[tid].buyer_id)
               = "TRANS_006"
        /\ resolve_check(transactions, tid) = "TRANS_007"

\* C10 as stated: resolving a disputed transaction without refund sets its
\* state to completed, records the resolution and starts no transfer.
C10_ResolveWithoutRefund ==
    [][\A r \in ResolveSlots, tid \in DOMAIN transactions,
          resolution \in Outcomes :
          (transactions[tid].state = DISPUTED
             /\ resolve_dispute(r, tid, resolution, FALSE))
          => /\ transactions'[tid].state = COMPLETED
             /\ transactions'[tid].dispute.resolution
                    = [outcome |-> resolution, refunded |-> FALSE]
             /\ UNCHANGED ledgerVars
      ]_vars

\* The executor has moved amount from one account to another.
Moved(chain, from, to, amount) ==
    \E i \in DOMAIN chain :
        chain[i] = [from |-> from, to |-> to, amount |-> amount]

InitialBalance(address) ==
    get_balance([a \in {"A", "B"} |-> InitialGrant], address)

\* C11 as stated: when the refund of a transaction that was completed (its
\* principal paid in the ledger) and then disputed by its buyer ends with
\* the principal reversed and the ownership reverted, the fee has been moved from the
\* treasury to the buyer as well, the agent is the seller's again, the
\* state is refunded and (the transaction being the only one) the balances
\* of buyer, seller and treasury are what they were before the purchase.
C11_RefundRestores ==
    [][\A r \in ResolveSlots :
          (resolving[r] # Nil /\ ResolveFinish(r, TRUE))
          => LET tid == resolving[r].tid
                 t == transactions[tid]
             IN  (/\ t.error = None
                  /\ t.dispute.opened_by = t.buyer_id
                  /\ Moved(chain_transactions, t.buyer_id, t.seller_id,
                           t.amount)
                  /\ Moved(chain_transactions, t.seller_id, t.buyer_id,
                           t.amount))
                 => /\ Moved(chain_transactions, Treasury, t.buyer_id, t.fee)
                    /\ agent_owner'[t.agent_id] = t.seller_id
                    /\ transactions'[tid].state = REFUNDED
                    /\ Len(transactions) = 1
                         => \A a \in {t.buyer_id, t.seller_id, Treasury} :
                                get_balance(balances', a) = InitialBalance(a)
      ]_vars

\* C12 as stated: a reversal transfer that comes back with an error ends
\* the resolve_dispute call, and the transaction is still disputed; and a
\* failed ownership reversal ends the call with the transaction disputed.
C12_FailedRefundStaysDisputed ==
    [][\A r \in ResolveSlots :
          /\ (/\ resolving[r] # Nil
               /\ xfer[<<"resolve", r>>].pc = "ret"
               /\ xfer[<<"resolve", r>>].ret # "ok"
               /\ (ResolveFee(r) \/ ResolveOwnership(r)))
              => /\ resolving'[r] = Nil
                 /\ transactions'[resolving[r].tid].state = DISPUTED
          /\ (resolving[r] # Nil /\ ResolveFinish(r, FALSE))
              => transactions'[resolving[r].tid].state = DISPUTED
      ]_vars

Resolved(t) == t.dispute # Nil /\ t.dispute.resolution # Nil

\* C13 as stated: once the dispute of a transaction has a resolution, no
\* dispute_transaction or resolve_dispute call changes the transaction
\* (state and recorded resolution included) or starts a ledger transfer.
C13_TerminalAfterResolution ==
    [][\A tid \in DOMAIN transactions :
          Resolved(transactions[tid])
          => /\ \A u \in Users, reason \in Reasons :
                   dispute_transaction(tid, u, reason)
                   => transactions'[tid] = transactions[tid]
             /\ \A r \in ResolveSlots, resolution \in Outcomes,
                   refund \in BOOLEAN :
                   resolve_dispute(r, tid, resolution, refund)
                   => (transactions'[tid] = transactions[tid] /\ xfer' = xfer)
      ]_vars

\* C14 as stated: when the principal transfer of a processing sequence
\* comes back with the executor's failure, the next step of the sequence
\* is another attempt of the same transfer or, the attempts being used up,
\* the marking of the transaction as failed.
C14_BoundedRetry ==
    [][\A tid \in DOMAIN transactions :
          LET f == <<"proc", tid>>
              t == transactions[tid]
          IN  (/\ proc[tid] = "principal"
               /\ xfer[f].pc = "ret"
               /\ xfer[f].ret = "TOKEN_008"
               /\ xfer'[f] # xfer[f])
              => \/ /\ xfer'[f] = TransferEnter(t.buyer_id, t.seller_id,
                                                 t.amount)
                    /\ proc'[tid] = proc[tid]
                 \/ transactions'[tid].state = FAILED
      ]_vars

\* C15 as stated: a processing sequence that gets an error back from its
\* fee or principal transfer, or whose ownership transfer fails, ends there
\* with the transaction failed and the error recorded; and processing
\* completes a transaction only with the fee and the principal moved in
\* the ledger.
C15_FailStop ==
    [][\A tid \in DOMAIN transactions :
          LET f == <<"proc", tid>>
              t == transactions[tid]
          IN  /\ (/\ proc[tid] \in {"fee", "principal"}
                   /\ xfer[f].pc = "ret"
                   /\ xfer[f].ret # "ok"
                   /\ proc'[tid] # proc[tid])
                  => /\ proc'[tid] = "done"
                     /\ transactions'[tid].state = FAILED
                     /\ transactions'[tid].error # None
              /\ (proc[tid] = "ownership" /\ ProcFinish(tid, FALSE))
                  => /\ transactions'[tid].state = FAILED
                     /\ transactions'[tid].error # None
              /\ (t.state = PROCESSING /\ transactions'[tid].state = COMPLETED)
                  => /\ Moved(chain_transactions, t.buyer_id, Treasury, t.fee)
                     /\ Moved(chain_transactions, t.buyer_id, t.seller_id,
                              t.amount)
      ]_vars

\* C16 as stated: when the processing of a transaction (the only one so
\* far) completes it with the principal paid, the buyer has been debited
\* amount + fee, the treasury credited the fee and the seller credited the
\* amount.
C16_ProcessingAmounts ==
    [][\A tid \in DOMAIN transactions :
          LET t == transactions[tid]
          IN  (/\ proc[tid] = "ownership"
               /\ ProcFinish(tid, TRUE)
               /\ Len(transactions) = 1
               /\ Moved(chain_transactions, t.buyer_id, t.seller_id, t.amount))
              => /\ transactions'[tid].state = COMPLETED
                 /\ t.total_amount = t.amount + t.fee
                 /\ get_balance(balances', t.buyer_id)
                        = InitialBalance(t.buyer_id) - t.total_amount
                 /\ get_balance(balances', Treasury)
                        = InitialBalance(Treasury) + t.fee
                 /\ get_balance(balances', t.seller_id)
                        = InitialBalance(t.seller_id) + t.amount
      ]_vars

\* The rate the fee schedule gives a trailing volume: the base rate below
\* the lowest threshold, else the rate of the highest threshold reached.
ScheduleRate(volume) ==
    LET reached == {i \in DOMAIN volume_discount_tiers :
                        volume_discount_tiers[i][1] <= volume}
    IN  IF reached = {} THEN base_fee_rate
        ELSE LET top == CHOOSE i \in reached : \A j \in reached :
                            volume_discount_tiers[j][1]
                                <= volume_discount_tiers[i][1]
             IN  volume_discount_tiers[top][2]

Clamp(x, lo, hi) == IF x < lo THEN lo ELSE IF x > hi THEN hi ELSE x

Stored == <<transactions, user_transactions, agent_transactions,
            active_transactions, proc, metrics>>

\* C18: create_transaction with buyer = seller is answered TRANS_001 and
\* with a non-positive amount TRANS_002, and such a call changes nothing
\* (no step that changes the state is such a call); a call whose buyer
\* holds less than amount + fee ends without storing or indexing a
\* transaction, scheduling a processing or touching the metrics.
C18_CreateRejected ==
    /\ [](\A b \in Buyers, sel \in Traders, a \in ProcAmounts :
            /\ b = sel => create_validation(b, sel, a) = "TRANS_001"
            /\ (b # sel /\ a <= 0) => create_validation(b, sel, a) = "TRANS_002")
    /\ [][(\A c \in CreateSlots, b \in Buyers, sel \in Traders,
               ag \in Agents, a \in ProcAmounts :
               (b = sel \/ a <= 0) => ~CreateBegin(c, b, sel, ag, a))
           /\
           (\A k \in CreateSlots :
               (/\ creating[k] # Nil
                /\ get_balance(balances, creating[k].buyer_id)
                       < creating[k].amount + creating[k].fee
                /\ CreateFinish(k))
               => UNCHANGED Stored)
         ]_vars

\* A transaction is stored, and a second call, for more than its buyer
\* holds, is waiting for the answer of the balance check.
C18_Witness ==
    /\ Len(transactions) = 1
    /\ \E c \in CreateSlots :
           /\ creating[c] # Nil
           /\ get_balance(balances, creating[c].buyer_id)
                  < creating[c].total_amount

\* C19: a dispute by somebody who is neither buyer nor seller is answered
\* TRANS_005 and changes nothing (no step that changes the state is such a
\* call); a dispute by the buyer or the seller of a completed or failed
\* transaction is admitted and makes it disputed, with the opener, the
\* reason and an empty resolution recorded, and nothing else of it changed.
C19_DisputeAuthorization ==
    /\ [](\A tid \in DOMAIN transactions, u \in Traders \cup Users :
            LET t == transactions[tid]
            IN  /\ u \notin Participants(t)
                     => dispute_check(transactions, tid, u) = "TRANS_005"
                /\ (u \in Participants(t) /\ t.state \in {COMPLETED, FAILED})
                     => dispute_check(transactions, tid, u) = "ok")
    /\ [][\A tid \in DOMAIN transactions, u \in Traders \cup Users,
             reason \in Reasons :
             LET t == transactions[tid]
             IN  IF u \notin Participants(t)
                 THEN ~dispute_transaction(tid, u, reason)
                 ELSE (t.state \in {COMPLETED, FAILED}
                         /\ dispute_transaction(tid, u, reason))
                      => transactions'[tid] =
                             [t EXCEPT !.state = DISPUTED,
                                       !.dispute = [opened_by |-> u,
                                                    reason |-> reason,
                                                    resolution |-> Nil]]
         ]_vars

\* One transaction disputed by its seller after it failed, another by its
\* buyer after it completed.
C19_Witness ==
    \E i \in DOMAIN transactions, j \in DOMAIN transactions :
        /\ transactions[i].state = DISPUTED
        /\ transactions[i].error # None
        /\ transactions[i].dispute.opened_by = transactions[i].seller_id
        /\ transactions[j].state = DISPUTED
        /\ transactions[j].error = None
        /\ transactions[j].dispute.opened_by = transactions[j].buyer_id
        /\ transactions[j].dispute.resolution = Nil

\* The stages of a processing task that has been scheduled and has not
\* reached its finally clause.
Running == {"scheduled", "fee", "principal", "ownership"}

\* The order in which one processing task goes through its stages.
NextStage == [none |-> "scheduled", scheduled |-> "fee", fee |-> "principal",
              principal |-> "ownership", ownership |-> "done"]

\* C20: whatever the interleaving of concurrent creations, every stored
\* transaction has exactly one processing task, which is registered as
\* active exactly while it runs and holds a transfer frame only in its two
\* transfer stages; a task only ever moves to its next stage, so that no
\* identifier is processed a second time, and every finished task is
\* counted once in the metrics.
C20_OneProcessingPerId ==
    /\ [](/\ \A tid \in TxIds :
                /\ proc[tid] # None <=> tid \in DOMAIN transactions
                /\ proc[tid] \in Running <=> tid \in active_transactions
                /\ xfer[<<"proc", tid>>] # IdleFrame
                       => proc[tid] \in {"fee", "principal"}
           /\ metrics.total_transactions = Len(transactions)
           /\ metrics.successful_transactions + metrics.failed_transactions
                  = Cardinality({k \in TxIds : proc[k] = "done"}))
    /\ [][\A tid \in TxIds :
             /\ proc'[tid] # proc[tid]
                   => (proc[tid] # "done" /\ proc'[tid] = NextStage[proc[tid]])
             /\ (tid \in DOMAIN transactions /\ proc[tid] # "scheduled")
                   => transactions'[tid].state # PROCESSING
                        \/ transactions[tid].state = PROCESSING
         ]_vars

\* Two transactions being processed at the same time, at different stages.
C20_Witness ==
    \E i \in TxIds, j \in TxIds :
        /\ i # j
        /\ i \in active_transactions
        /\ j \in active_transactions
        /\ proc[i] = "principal"
        /\ proc[j] = "fee"

\* C21: with an executor that answers every call, every transfer that has
\* been called returns its outcome, whatever other transfers run beside it
\* and whatever their directions, and a transfer waiting for the lock gets
\* it.
C21_DeadlockFreedom ==
    \A f \in Callers :
        /\ (xfer[f].pc \notin {"idle", "ret"}) ~> (xfer[f].pc = "ret")
        /\ (xfer[f].pc = "lock") ~> (transfer_lock = f)

\* A transfer from A to B holds the lock while a transfer from B to A
\* waits for it.
C21_Witness ==
    \E f \in Callers, g \in Callers :
        /\ xfer[f].pc = "move"
        /\ transfer_lock = f
        /\ xfer[f].from = "A"
        /\ xfer[f].to = "B"
        /\ xfer[g].pc = "lock"
        /\ xfer[g].from = "B"
        /\ xfer[g].to = "A"

\* C22: every transfer that has been called returns, also when the
\* executor leaves a send_transaction unanswered, and a transfer waiting
\* for the lock gets it.
C22_TransferReturns ==
    \A f \in Callers :
        /\ (xfer[f].pc = "move") ~> (xfer[f].pc = "ret")
        /\ (xfer[f].pc = "lock") ~> (transfer_lock = f \/ xfer[f].pc = "ret")

\* C30: the executor's move is dispatched only for a transfer whose amount
\* the sender's balance covers at that moment.
C30_CheckUnderHold ==
    \A f \in Frames :
        xfer[f].pc = "move"
            => get_balance(balances, xfer[f].from) >= xfer[f].amount

\* C23: the adjustment of every tick, awaited or returned, lies between
\* -max_adjustment and +max_adjustment, and the amount of the mint or burn
\* a tick asks for is at most max_adjustment times the supply it read.
C23_AdjustmentBounded ==
    /\ [](/\ tick # Nil =>
               /\ DecLeq(DecNeg(max_adjustment), tick.adjustment)
               /\ DecLeq(tick.adjustment, max_adjustment)
          /\ DecLeq(DecNeg(max_adjustment), returned.adjustment)
          /\ DecLeq(returned.adjustment, max_adjustment))
    /\ [][(tick = Nil /\ tick' # Nil)
             => /\ DecLeq(DecAbs(tick'.supply_change),
                          DecMul(max_adjustment, market_state.current_supply))
                /\ DecLeq(tick'.amount,
                          DecMul(max_adjustment, market_state.current_supply))
         ]_vars

\* A tick whose PID output lies below -max_adjustment and whose adjustment
\* is -max_adjustment, on a supply that is not zero.
C23_Witness ==
    /\ tick # Nil
    /\ DecLess(pid_adjustment(tick.price_error, control_params.integral_error,
                              control_params.last_error),
               DecNeg(max_adjustment))
    /\ tick.adjustment = DecNeg(max_adjustment)
    /\ tick.amount = <<50000, 1>>

\* The steps of check_and_adjust up to its await, for any delay.
IsTick == tick = Nil /\ \E dt \in Delays : TickBegin(dt)

\* What a tick that does not adjust leaves alone.
TickMemory == <<control_params, last_adjustment_time, stabilizer_metrics,
                market_state, price_history, volume_history>>

\* C24: a tick that finds the price within the tolerance of the target,
\* the bound included, asks for no mint and no burn and leaves the PID
\* memory, the time of the last adjustment and the counters as they were.
C24_WithinTolerance ==
    [][(/\ IsTick
        /\ DecLeq(DecAbs(relative_error(market_state.current_price)),
                  price_tolerance))
       => (tick' = Nil /\ UNCHANGED TickMemory)]_vars

\* A tick has just returned None with the interval elapsed and the price
\* at 1.005.
C24_Witness ==
    /\ returned = ReturnedNone(now)
    /\ tick = Nil
    /\ now - last_adjustment_time >= adjustment_interval
    /\ market_state.current_price = <<201, 200>>

\* C25: a tick made less than adjustment_interval after the last
\* adjustment asks for no mint and no burn and changes nothing of the
\* stabilizer.
C25_TooSoon ==
    [][(IsTick /\ now' - last_adjustment_time < adjustment_interval)
       => (tick' = Nil /\ UNCHANGED TickMemory)]_vars

\* After an adjustment, a tick made half an interval later has returned
\* None although the price is out of tolerance.
C25_Witness ==
    /\ stabilizer_metrics.total_adjustments > 0
    /\ returned = ReturnedNone(now)
    /\ tick = Nil
    /\ now > last_adjustment_time
    /\ now - last_adjustment_time < adjustment_interval
    /\ ~DecLeq(DecAbs(relative_error(market_state.current_price)),
               price_tolerance)

\* C26: an adjusting tick computes supply_change as the supply times the
\* adjustment and asks for a mint of supply_change when it is positive and
\* for a burn of -supply_change when it is negative; with the price at
\* 1.05 and no PID memory it asks for a burn of 0.05 times the supply.
C26_MintOrBurn ==
    [][(tick = Nil /\ tick' # Nil)
       => LET supply == market_state.current_supply
              supply_change == DecMul(supply, tick'.adjustment)
          IN  /\ tick'.supply_change = supply_change
              /\ DecLess(Zero, supply_change)
                    => (tick'.op = "mint" /\ tick'.amount = supply_change)
              /\ DecLess(supply_change, Zero)
                    => (tick'.op = "burn"
                        /\ tick'.amount = DecNeg(supply_change))
              /\ (/\ market_state.current_price = <<21, 20>>
                  /\ control_params.integral_error = Zero
                  /\ control_params.last_error = Zero)
                    => (tick'.op = "burn"
                        /\ tick'.amount = DecMul(supply, <<1, 20>>))
      ]_vars

\* The first adjusting tick, at the price 1.05 on a supply of 1,000,000,
\* awaits a burn of 50,000.
C26_Witness ==
    /\ tick # Nil
    /\ tick.price_error = <<1, 20>>
    /\ control_params.last_error = Zero
    /\ stabilizer_metrics.total_adjustments = 0
    /\ tick.op = "burn"
    /\ tick.amount = <<50000, 1>>
    /\ tick.supply_change = <<-50000, 1>>

\* C27: when the mint or burn of a tick fails, the failure is counted and
\* integral_error, last_error and last_adjustment_time are, after the
\* tick, what they were before it.
C27_FailedAdjustmentKeepsMemory ==
    [][(tick # Nil /\ tick' = Nil /\ ~returned'.success)
       => /\ stabilizer_metrics'.failed_adjustments
                 = stabilizer_metrics.failed_adjustments + 1
          /\ control_params'.integral_error
                 = DecSub(control_params.integral_error,
                          DecMul(tick.price_error, <<adjustment_interval, 1>>))
          /\ control_params'.last_error = control_params.last_error
          /\ last_adjustment_time' = last_adjustment_time
      ]_vars

\* C28: a mint or burn of an amount that is not positive does not
\* succeed.
C28_InvalidAmountRejected ==
    [][(tick # Nil /\ tick' = Nil /\ DecLeq(tick.amount, Zero))
       => ~returned'.success]_vars

\* A history after one more sample: the sample is last, and what was held
\* is kept in its order, less the oldest sample when the history was full.
Ingested(before, after) ==
    /\ after # <<>>
    /\ IF Len(before) = maxlen
       THEN after = Append(Tail(before), after[Len(after)])
       ELSE after = Append(before, after[Len(after)])

\* The samples of a history stand in the order of their arrival.
InArrivalOrder(history) ==
    \A i \in 1..(Len(history) - 1) : history[i][1] <= history[i + 1][1]

\* C29: the price history and the volume history never hold more than
\* maxlen samples and hold them in the order of their arrival; a sample
\* appended to a full history removes the oldest sample and nothing else.
C29_BoundedHistories ==
    /\ [](/\ Len(price_history) <= maxlen
          /\ Len(volume_history) <= maxlen
          /\ InArrivalOrder(price_history)
          /\ InArrivalOrder(volume_history))
    /\ [][/\ price_history' # price_history
                => Ingested(price_history, price_history')
          /\ volume_history' # volume_history
                => Ingested(volume_history, volume_history')
         ]_vars

\* Both histories are full and have lost their first samples.
C29_Witness ==
    /\ Len(price_history) = maxlen
    /\ Len(volume_history) = maxlen
    /\ price_history[1][1] > 1
    /\ volume_history[1][1] > 1
    /\ price_history[maxlen][1] = now

\* The accounts a transfer touches.
Touched(f) == {xfer[f].from, xfer[f].to}

\* C31: a transfer waits for the lock only while a transfer that shares an
\* account with it holds the lock.
C31_DisjointNeverWait ==
    \A f \in Frames, g \in Frames :
        (xfer[f].pc = "lock" /\ transfer_lock = g)
            => Touched(f) \cap Touched(g) # {}

\* C32: a transaction is PROCESSING before its first ledger call, which is
\* the transfer of the fee to the treasury; the transfer of the amount to
\* the seller is called when the fee transfer has returned; the ownership
\* transfer is awaited when both have returned; and the transaction
\* becomes COMPLETED only out of the ownership transfer, which has then
\* given the agent to the buyer.
C32_ProcessingOrder ==
    /\ [](\A tid \in DOMAIN transactions :
            /\ proc[tid] = "scheduled"
                  => (transactions[tid].state = PENDING
                      /\ xfer[<<"proc", tid>>] = IdleFrame)
            /\ proc[tid] \in {"fee", "principal", "ownership"}
                  => transactions[tid].state = PROCESSING)
    /\ [][\A tid \in DOMAIN transactions :
             LET t == transactions[tid]
                 frame == <<"proc", tid>>
             IN  /\ (t.state = PENDING /\ transactions'[tid].state # PENDING)
                       => /\ transactions'[tid].state = PROCESSING
                          /\ xfer'[frame] =
                                 TransferEnter(t.buyer_id, Treasury, t.fee)
                 /\ (proc[tid] = "fee" /\ proc'[tid] # "fee")
                       => /\ xfer[frame].pc = "ret"
                          /\ xfer'[frame] =
                                 TransferEnter(t.buyer_id, t.seller_id, t.amount)
                 /\ (proc[tid] # "ownership" /\ proc'[tid] = "ownership")
                       => /\ proc[tid] = "principal"
                          /\ xfer[frame].pc = "ret"
                 /\ (t.state # COMPLETED /\ transactions'[tid].state = COMPLETED)
                       => /\ proc[tid] = "ownership"
                          /\ agent_owner'[t.agent_id] = t.buyer_id
         ]_vars

\* A completed transaction whose amount went to the seller.
C32_Witness ==
    \E tid \in DOMAIN transactions :
        /\ transactions[tid].state = COMPLETED
        /\ proc[tid] = "done"
        /\ agent_owner[transactions[tid].agent_id] = transactions[tid].buyer_id
        /\ Moved(chain_transactions, transactions[tid].buyer_id,
                 transactions[tid].seller_id, transactions[tid].amount)

\* C34: after every ingestion of a non-empty batch, whether it ends well or
\* with a failure, market_state.current_price is the price of the most
\* recent sample of the price history.
C34_PriceFollowsHistory ==
    [][volume_history' # volume_history
          => market_state'.current_price
                 = price_history'[Len(price_history')][2]]_vars

\* What the executor has moved from one account to another.
RECURSIVE Sent(_, _, _)
Sent(chain, from, to) ==
    IF chain = <<>> THEN 0
    ELSE (IF Head(chain).from = from /\ Head(chain).to = to
          THEN Head(chain).amount ELSE 0)
         + Sent(Tail(chain), from, to)

\* C36: the refunds never move to a buyer more than the processing of the
\* buyer's transactions has moved out of the buyer's account.
C36_RefundWithinPaid ==
    \A tid \in DOMAIN transactions :
        LET t == transactions[tid]
        IN  t.buyer_id # t.seller_id
                => Sent(chain_transactions, t.seller_id, t.buyer_id)
                       <= Sent(chain_transactions, t.buyer_id, t.seller_id)

\* C38: whenever the stabilizer awaits _mint_tokens or _burn_tokens, the
\* amount it has passed is positive.
C38_PositiveAmount ==
    tick # Nil => DecLess(Zero, tick.amount)

\* C37: _burn_tokens is called only while the current price is above the
\* target, and _mint_tokens only while it is below the target, whatever
\* integral_error and last_error have become.
C37_DirectionFollowsPrice ==
    [][(tick = Nil /\ tick' # Nil)
          => /\ tick'.op = "burn"
                    => DecLess(target_price, market_state.current_price)
             /\ tick'.op = "mint"
                    => DecLess(market_state.current_price, target_price)
      ]_vars

\* A transfer that the executor has carried out and that has not yet
\* reached the invalidation of lines 239-240.
TookEffect(f) == xfer[f].pc = "settle" /\ xfer[f].result = "success"

\* C33: once the transfers that took effect have completed, the cache
\* holds no balance read before they took effect: every cached balance is
\* the balance the executor holds, under any interleaving with get_balance
\* calls.
C33_NoStaleCache ==
    (\A f \in Frames : ~TookEffect(f))
        => \A address \in DOMAIN balance_cache :
               balance_cache[address] = get_balance(balances, address)

\* How many times the executor has moved an amount from one account to
\* another.
RECURSIVE Times(_, _, _, _)
Times(chain, from, to, amount) ==
    IF chain = <<>> THEN 0
    ELSE (IF Head(chain) = [from |-> from, to |-> to, amount |-> amount]
          THEN 1 ELSE 0)
         + Times(Tail(chain), from, to, amount)

\* The transactions of the same seller, buyer and amount as t.
Alike(t) ==
    {k \in DOMAIN transactions :
        /\ transactions[k].seller_id = t.seller_id
        /\ transactions[k].buyer_id = t.buyer_id
        /\ transactions[k].amount = t.amount}

\* C35: whatever resolve_dispute calls with refund are made, one after
\* the other or at the same time, the amount of a transaction is moved
\* back from the seller to the buyer at most once: the executor has made
\* no more such moves than there are such transactions.
C35_RefundAtMostOnce ==
    \A tid \in DOMAIN transactions :
        LET t == transactions[tid]
        IN  t.buyer_id # t.seller_id
                => Times(chain_transactions, t.seller_id, t.buyer_id,
                         t.amount) <= Cardinality(Alike(t))

\* C39: two calls of _mint_tokens or _burn_tokens are at least
\* adjustment_interval apart: two activations that await their call at the
\* same time were started that far apart, and an activation calls no
\* sooner than adjustment_interval after the adjustment before it, failed
\* or not.
C39_IntervalBetweenCalls ==
    /\ []((tick # Nil /\ overlap # Nil)
            => Abs(tick.current_time - overlap.current_time)
                   >= adjustment_interval)
    /\ [][(tick = Nil /\ tick' # Nil
             /\ stabilizer_metrics.total_adjustments > 0)
            => tick'.current_time - last_adjustment_time
                   >= adjustment_interval]_vars

====
